---- MODULE Spec2Model ----
(***************************************************************************)
(* Model of the Toy lexer, src/src/Ch1/include/toy/Lexer.h.                *)
(*                                                                         *)
(* Characters are their ASCII codes, as in the source, where last_char is  *)
(* a Token (an enum over int) and the punctuation tokens are the codes of  *)
(* their characters.  Text is a sequence of codes.  A double is modelled   *)
(* as the exact decimal it was parsed from: [ip, fp], the digits of the    *)
(* integer part without leading zeros and the digits of the fraction       *)
(* without trailing zeros (the texts of the model are far shorter than the *)
(* 15 significant digits a double keeps apart).                            *)
(***************************************************************************)
EXTENDS Integers, Sequences, FiniteSets, TLC

(***************************************************************************)
(* Bounds of the model.                                                    *)
(***************************************************************************)
MaxLen == 3
MaxWords == 2

(***************************************************************************)
(* enum Token, and EOF of <cstdio>.                                        *)
(***************************************************************************)
EOF == -1
tok_eof == -1
tok_return == -2
tok_var == -3
tok_def == -4
tok_identifier == -5
tok_number == -6
tok_semicolon == 59
tok_parenthese_open == 40
tok_parenthese_close == 41
tok_bracket_open == 123
tok_bracket_close == 125
tok_sbracket_open == 91
tok_sbracket_close == 93

Punctuation ==
  {tok_semicolon, tok_parenthese_open, tok_parenthese_close, tok_bracket_open,
   tok_bracket_close, tok_sbracket_open, tok_sbracket_close}

(***************************************************************************)
(* The character classes of <cctype> in the "C" locale.                    *)
(***************************************************************************)
(* isspace that knows the space and the newline only. *)
isspaceNoTabCr(c) == c \in {10, 32}

isspace(c) == c \in {9, 10, 11, 12, 13, 32}
isalpha(c) == c \in (65..90) \cup (97..122)
isdigit(c) == c \in 48..57
isalnum(c) == isalpha(c) \/ isdigit(c)

(***************************************************************************)
(* std::to_string(int): the decimal digits of n, as text.                  *)
(***************************************************************************)
RECURSIVE Digits(_)
Digits(n) == IF n < 10 THEN <<48 + n>> ELSE Append(Digits(n \div 10), 48 + (n % 10))

to_string(n) == IF n < 0 THEN <<45>> \o Digits(0 - n) ELSE Digits(n)

(***************************************************************************)
(* strtod on text: the longest prefix digits* [ '.' digits* ] that holds   *)
(* a digit is converted; with no digit in it nothing is converted and the  *)
(* value is 0.  (Signs, exponents and hexadecimal never reach strtod here: *)
(* numStr is built from to_string of a digit or '.'.)                      *)
(***************************************************************************)
RECURSIVE DigitRun(_)
DigitRun(s) ==
  IF s # <<>> /\ isdigit(Head(s)) THEN <<Head(s) - 48>> \o DigitRun(Tail(s)) ELSE <<>>

RECURSIVE StripLeadingZeros(_)
StripLeadingZeros(d) ==
  IF d # <<>> /\ Head(d) = 0 THEN StripLeadingZeros(Tail(d)) ELSE d

RECURSIVE StripTrailingZeros(_)
StripTrailingZeros(d) ==
  IF d # <<>> /\ d[Len(d)] = 0 THEN StripTrailingZeros(SubSeq(d, 1, Len(d) - 1)) ELSE d

Zero == [ip |-> <<>>, fp |-> <<>>]

strtod(s) ==
  LET ip == DigitRun(s)
      rest == SubSeq(s, Len(ip) + 1, Len(s))
      fp == IF rest # <<>> /\ Head(rest) = 46 THEN DigitRun(Tail(rest)) ELSE <<>>
  IN  IF ip = <<>> /\ fp = <<>> THEN Zero
      ELSE [ip |-> StripLeadingZeros(ip), fp |-> StripTrailingZeros(fp)]

(***************************************************************************)
(* A Lexer object is a record L of its fields.  L.source is the state of   *)
(* the derived class: the chunks readNextLine() has still to return.       *)
(* L.pos and L.tokPos are history fields: the number of characters         *)
(* getNextChar() has returned so far, and that number when the location of *)
(* the current token was saved.  The first character returned is the       *)
(* "\n" curLineBuffer starts with, so the character of the input at index  *)
(* i is returned when pos becomes i + 1.  L.delivered is a history field   *)
(* too: the chunks readNextLine() has returned, in order, which each       *)
(* readNextLine() appends to.                                              *)
(*                                                                         *)
(* L.lexerBuffer holds the members of the derived class LexerBuffer and    *)
(* the memory they point into: mem is the buffer, from begin to end, and   *)
(* the byte at end, which readNextLine() reads (current <= end) and which  *)
(* is whatever the caller has there: the NUL behind a string, or the next  *)
(* character of a larger text.  current and end are indices into mem.      *)
(* mem is empty when the Lexer is of another derived class, which returns  *)
(* the chunks of source.                                                   *)
(***************************************************************************)
NoLexerBuffer == [mem |-> <<>>, current |-> 1, end |-> 0]

NewLexer(chunks) ==
  [curTok |-> tok_eof,
   lastLocation |-> [line |-> 0, col |-> 0],
   identifierStr |-> <<>>,
   numVal |-> Zero,
   last_char |-> 32,
   curLineNum |-> 0,
   curCol |-> 0,
   curLineBuffer |-> <<10>>,
   source |-> chunks,
   pos |-> 0,
   tokPos |-> 0,
   delivered |-> <<>>,
   lexerBuffer |-> NoLexerBuffer]

(* LexerBuffer(begin, end, filename) over a buffer with this content, in a
   memory that holds the byte `after' at end. *)
NewLexerBuffer(content, after) ==
  [NewLexer(<<>>) EXCEPT
     !.lexerBuffer = [mem |-> Append(content, after), current |-> 1, end |-> Len(content) + 1]]

(* readNextLine that starts the column anew with every chunk. *)
readNextLineResetsColumn(L) ==
  IF L.source = <<>>
  THEN [L EXCEPT !.curLineBuffer = <<>>, !.delivered = Append(@, <<>>)]
  ELSE [L EXCEPT !.curLineBuffer = Head(L.source), !.source = Tail(L.source),
                 !.delivered = Append(@, Head(L.source)), !.curCol = 0]

(* readNextLine(): the next chunk, or the empty chunk at the end. *)
readNextLine(L) ==
  IF L.source = <<>>
  THEN [L EXCEPT !.curLineBuffer = <<>>, !.delivered = Append(@, <<>>)]
  ELSE [L EXCEPT !.curLineBuffer = Head(L.source), !.source = Tail(L.source),
                 !.delivered = Append(@, Head(L.source))]

(* while (current <= end && *current && *current != '\n') ++current; *)
RECURSIVE ScanLine(_, _, _)
ScanLine(mem, current, end) ==
  IF current <= end /\ mem[current] # 0 /\ mem[current] # 10
  THEN ScanLine(mem, current + 1, end)
  ELSE current

(* if (current <= end && *current) ++current; *)
StepOver(mem, current, end) ==
  IF current <= end /\ mem[current] # 0 THEN current + 1 ELSE current

(* llvm::StringRef result{begin, current - begin}, with current moved there. *)
LineTo(L, current) ==
  [L EXCEPT !.curLineBuffer = SubSeq(L.lexerBuffer.mem, L.lexerBuffer.current, current - 1),
            !.delivered = Append(@, SubSeq(L.lexerBuffer.mem, L.lexerBuffer.current, current - 1)),
            !.lexerBuffer.current = current]

(* LexerBuffer::readNextLine(): the line that starts at current, with its
   newline. *)
LexerBuffer_readNextLine(L) ==
  LineTo(L, StepOver(L.lexerBuffer.mem,
                     ScanLine(L.lexerBuffer.mem, L.lexerBuffer.current, L.lexerBuffer.end),
                     L.lexerBuffer.end))

(* curLineBuffer = readNextLine(): the virtual call, to the derived class. *)
callReadNextLine(L) ==
  IF L.lexerBuffer.mem = <<>> THEN readNextLine(L) ELSE LexerBuffer_readNextLine(L)

(* CountLine that counts the line and lets the column run on. *)
CountLineKeepsColumn(L, next_char) ==
  IF next_char = 10 THEN [L EXCEPT !.curLineNum = @ + 1] ELSE L

(* CountLine with the column restarted at 1 instead of 0. *)
CountLineFromOne(L, next_char) ==
  IF next_char = 10 THEN [L EXCEPT !.curLineNum = @ + 1, !.curCol = 1] ELSE L

(* The newline bookkeeping of getNextChar(). *)
CountLine(L, next_char) ==
  IF next_char = 10 THEN [L EXCEPT !.curLineNum = @ + 1, !.curCol = 0] ELSE L

(* getNextChar with the newline test as the else of the refill. *)
getNextCharElseNewline(L) ==
  IF L.curLineBuffer = <<>>
  THEN [lex |-> L, ch |-> EOF]
  ELSE LET next_char == Head(L.curLineBuffer)
           dropped == [L EXCEPT !.curCol = @ + 1,
                                !.pos = @ + 1,
                                !.curLineBuffer = Tail(@)]
       IN  [lex |-> IF dropped.curLineBuffer = <<>>
                    THEN callReadNextLine(dropped)
                    ELSE CountLine(dropped, next_char),
            ch |-> next_char]

(* getNextChar that asks for a line again when it finds curLineBuffer empty. *)
getNextCharAsksAgain(L) ==
  LET R == IF L.curLineBuffer = <<>> THEN callReadNextLine(L) ELSE L
  IN  IF R.curLineBuffer = <<>>
      THEN [lex |-> R, ch |-> EOF]
      ELSE LET next_char == Head(R.curLineBuffer)
               dropped == [R EXCEPT !.curCol = @ + 1,
                                    !.pos = @ + 1,
                                    !.curLineBuffer = Tail(@)]
               filled == IF dropped.curLineBuffer = <<>>
                         THEN callReadNextLine(dropped)
                         ELSE dropped
           IN  [lex |-> CountLine(filled, next_char), ch |-> next_char]

(* getNextChar(): [lex |-> the object afterwards, ch |-> the value returned]. *)
getNextChar(L) ==
  IF L.curLineBuffer = <<>>
  THEN [lex |-> L, ch |-> EOF]
  ELSE LET next_char == Head(L.curLineBuffer)
           dropped == [L EXCEPT !.curCol = @ + 1,
                                !.pos = @ + 1,
                                !.curLineBuffer = Tail(@)]
           filled == IF dropped.curLineBuffer = <<>>
                     THEN callReadNextLine(dropped)
                     ELSE dropped
       IN  [lex |-> CountLine(filled, next_char), ch |-> next_char]

(* last_char = Token(getNextChar()) *)
ReadChar(L) ==
  LET r == getNextChar(L) IN [r.lex EXCEPT !.last_char = r.ch]

(* while (isspace(last_char)) last_char = Token(getNextChar()); *)
RECURSIVE SkipWhitespace(_)
SkipWhitespace(L) ==
  IF isspace(L.last_char) THEN SkipWhitespace(ReadChar(L)) ELSE L

(* lastLocation.line = curLineNum; lastLocation.col = curCol; *)
SaveLocation(L) ==
  [L EXCEPT !.lastLocation = [line |-> L.curLineNum, col |-> L.curCol],
            !.tokPos = L.pos]

(* while (isalnum((last_char = Token(getNextChar()))) || last_char == '_')
     identifierStr += (char) last_char; *)
RECURSIVE IdentifierLoop(_)
IdentifierLoop(L) ==
  LET M == ReadChar(L)
  IN  IF isalnum(M.last_char) \/ M.last_char = 95
      THEN IdentifierLoop([M EXCEPT !.identifierStr = Append(@, M.last_char)])
      ELSE M

(* Keyword that takes a word for a keyword when it starts with one. *)
KeywordByPrefix(identifierStr) ==
  IF Len(identifierStr) >= 6 /\ SubSeq(identifierStr, 1, 6) = <<114, 101, 116, 117, 114, 110>>
  THEN tok_return
  ELSE IF Len(identifierStr) >= 3 /\ SubSeq(identifierStr, 1, 3) = <<100, 101, 102>>
  THEN tok_def
  ELSE IF Len(identifierStr) >= 3 /\ SubSeq(identifierStr, 1, 3) = <<118, 97, 114>>
  THEN tok_var
  ELSE tok_identifier

(* The comparison of identifierStr with the three keywords. *)
Keyword(identifierStr) ==
  IF identifierStr = <<114, 101, 116, 117, 114, 110>> THEN tok_return
  ELSE IF identifierStr = <<100, 101, 102>> THEN tok_def
  ELSE IF identifierStr = <<118, 97, 114>> THEN tok_var
  ELSE tok_identifier

(* LexIdentifier that appends to identifierStr without emptying it first. *)
LexIdentifierAppends(L) ==
  LET M == IdentifierLoop([L EXCEPT !.identifierStr = Append(@, L.last_char)])
  IN  [lex |-> M, tok |-> Keyword(M.identifierStr)]

(* The identifier branch of getTok(). *)
LexIdentifier(L) ==
  LET M == IdentifierLoop([L EXCEPT !.identifierStr = <<L.last_char>>])
  IN  [lex |-> M, tok |-> Keyword(M.identifierStr)]

(* What one turn of the number loop appends to numStr. *)
NumStrAppend(numStr, last_char) == numStr \o to_string(last_char)

(* The number loop going on at digits only. *)
RECURSIVE NumberLoopDigitsOnly(_, _)
NumberLoopDigitsOnly(L, numStr) ==
  LET s == NumStrAppend(numStr, L.last_char)
      M == ReadChar(L)
  IN  IF isdigit(M.last_char)
      THEN NumberLoopDigitsOnly(M, s)
      ELSE [lex |-> M, numStr |-> s]

(* do { numStr += std::to_string(last_char); last_char = Token(getNextChar()); }
   while (isdigit(last_char) || last_char == '.'); *)
RECURSIVE NumberLoop(_, _)
NumberLoop(L, numStr) ==
  LET s == NumStrAppend(numStr, L.last_char)
      M == ReadChar(L)
  IN  IF isdigit(M.last_char) \/ M.last_char = 46
      THEN NumberLoop(M, s)
      ELSE [lex |-> M, numStr |-> s]

(* The number branch of getTok(). *)
LexNumber(L) ==
  LET r == NumberLoop(L, <<>>)
  IN  [lex |-> [r.lex EXCEPT !.numVal = strtod(r.numStr)], tok |-> tok_number]

(* The comment loop going on to the end of file. *)
RECURSIVE CommentLoopToEof(_)
CommentLoopToEof(L) ==
  LET M == ReadChar(L)
  IN  IF M.last_char # EOF
      THEN CommentLoopToEof(M)
      ELSE M

(* do { last_char = Token(getNextChar()); }
   while (last_char != EOF && last_char != '\n' && last_char != '\r'); *)
RECURSIVE CommentLoop(_)
CommentLoop(L) ==
  LET M == ReadChar(L)
  IN  IF M.last_char # EOF /\ M.last_char # 10 /\ M.last_char # 13
      THEN CommentLoop(M)
      ELSE M

(* LexOther that at the end of file puts the lookahead and the line buffer
   back to what the constructor sets. *)
LexOtherRearm(L) ==
  IF L.last_char = EOF
  THEN [lex |-> [L EXCEPT !.last_char = 32, !.curLineBuffer = <<10>>], tok |-> tok_eof]
  ELSE [lex |-> ReadChar(L), tok |-> L.last_char]

(* LexOther that takes the character behind the token with it. *)
LexOtherTakesTwo(L) ==
  IF L.last_char = EOF
  THEN [lex |-> L, tok |-> tok_eof]
  ELSE [lex |-> ReadChar(ReadChar(L)), tok |-> L.last_char]

(* LexOther that returns the character and keeps it as the lookahead. *)
LexOtherKeepsChar(L) ==
  IF L.last_char = EOF
  THEN [lex |-> L, tok |-> tok_eof]
  ELSE [lex |-> L, tok |-> L.last_char]

(* The end of getTok(): end of file, or the character as its ASCII value. *)
LexOther(L) ==
  IF L.last_char = EOF
  THEN [lex |-> L, tok |-> tok_eof]
  ELSE [lex |-> ReadChar(L), tok |-> L.last_char]

(* getTok(): [lex |-> the object afterwards, tok |-> the token returned]. *)
RECURSIVE getTok(_)
getTok(L) ==
  LET A == SaveLocation(SkipWhitespace(L))
  IN  IF isalpha(A.last_char) THEN LexIdentifier(A)
      ELSE IF isdigit(A.last_char) \/ A.last_char = 46 THEN LexNumber(A)
      ELSE IF A.last_char = 35
           THEN LET B == CommentLoop(A)
                IN  IF B.last_char # EOF THEN getTok(B) ELSE LexOther(B)
           ELSE LexOther(A)

(* getNextToken that returns the token and does not keep it. *)
getNextTokenForgets(L) == getTok(L).lex

(* getNextToken that takes the location again once the token is read. *)
getNextTokenLocationAtEnd(L) ==
  LET r == getTok(L)
  IN  [r.lex EXCEPT !.curTok = r.tok,
                    !.lastLocation = [line |-> r.lex.curLineNum, col |-> r.lex.curCol]]

(* getNextToken(): curTok = getTok(). *)
getNextToken(L) ==
  LET r == getTok(L) IN [r.lex EXCEPT !.curTok = r.tok]

(* consumePrereq that lets any expectation pass before the first token. *)
consumePrereqLenient(L, tok) == tok = L.curTok \/ L.pos = 0

(* getIdPrereq that takes the keywords, whose text identifierStr holds too. *)
getIdPrereqOrKeyword(L) ==
  L.curTok \in {tok_identifier, tok_return, tok_var, tok_def}

(* The conditions consume(), getId() and getValue() assert. *)
consumePrereq(L, tok) == tok = L.curTok
getIdPrereq(L) == L.curTok = tok_identifier
getValuePrereq(L) == L.curTok = tok_number

(***************************************************************************)
(* The input texts of the model, and the ways a line source can cut a text *)
(* into non-empty chunks.                                                  *)
(***************************************************************************)
RECURSIVE StringsOf(_, _)
StringsOf(A, n) ==
  IF n = 0 THEN {<<>>}
  ELSE LET S == StringsOf(A, n - 1) IN S \cup {Append(s, c) : s \in S, c \in A}

RECURSIVE Splits(_)
Splits(t) ==
  IF t = <<>> THEN {<<>>}
  ELSE UNION {{<<SubSeq(t, 1, k)>> \o r : r \in Splits(SubSeq(t, k + 1, Len(t)))} :
              k \in 1..Len(t)}

(* The text in chunks of k characters, the last one shorter. *)
RECURSIVE ChunksOf(_, _)
ChunksOf(t, k) ==
  IF Len(t) <= k THEN (IF t = <<>> THEN <<>> ELSE <<t>>)
  ELSE <<SubSeq(t, 1, k)>> \o ChunksOf(SubSeq(t, k + 1, Len(t)), k)

RECURSIVE Flatten(_)
Flatten(cs) == IF cs = <<>> THEN <<>> ELSE Head(cs) \o Flatten(Tail(cs))

(* a space newline # ( *)
Alphabet == {97, 32, 10, 35, 40}

(* space tab newline carriage-return # a *)
BlankAlphabet == {32, 9, 10, 13, 35, 97}

(* 0 1 3 4 . *)
NumAlphabet == {48, 49, 51, 52, 46}

w_return == <<114, 101, 116, 117, 114, 110>>
w_var == <<118, 97, 114>>
w_def == <<100, 101, 102>>
w_returns == <<114, 101, 116, 117, 114, 110, 115>>
w_def_ == <<100, 101, 102, 95>>
w_Var == <<86, 97, 114>>
w_re == <<114, 101>>
w_foo == <<102, 111, 111>>

Words == {w_return, w_var, w_def, w_returns, w_def_, w_Var, w_re, w_foo}

(* What separates two words: a space, a newline. *)
Separators == {<<32>>, <<10>>}

(* Up to n words, separated. *)
RECURSIVE Phrases(_)
Phrases(n) ==
  IF n <= 1 THEN Words
  ELSE LET P == Phrases(n - 1)
       IN  P \cup {p \o sep \o w : p \in P, sep \in Separators, w \in Words}

(***************************************************************************)
(* The state: the fields of the Lexer under test (with the chunks its line *)
(* source has still to deliver and the two history fields), a second Lexer *)
(* `whole' that reads the same text delivered as one chunk and is advanced *)
(* in step with the first, the text and the chunks it was cut into, the    *)
(* build (ndebug: assert is compiled out), whether an assertion has        *)
(* aborted the process, whether a token has been requested yet, and the    *)
(* last call with what it returned.                                        *)
(***************************************************************************)
VARIABLES curTok, lastLocation, identifierStr, numVal, last_char, curLineNum,
          curCol, curLineBuffer, source, pos, tokPos, delivered, lexerBuffer,
          whole, input, chunking, ndebug, aborted, advanced, result, trace

lexerVars ==
  <<curTok, lastLocation, identifierStr, numVal, last_char, curLineNum,
    curCol, curLineBuffer, source, pos, tokPos, delivered, lexerBuffer>>

setup == <<input, chunking, ndebug>>

vars == <<lexerVars, whole, setup, aborted, advanced, result, trace>>

Self ==
  [curTok |-> curTok,
   lastLocation |-> lastLocation,
   identifierStr |-> identifierStr,
   numVal |-> numVal,
   last_char |-> last_char,
   curLineNum |-> curLineNum,
   curCol |-> curCol,
   curLineBuffer |-> curLineBuffer,
   source |-> source,
   pos |-> pos,
   tokPos |-> tokPos,
   delivered |-> delivered,
   lexerBuffer |-> lexerBuffer]

Store(L) ==
  /\ curTok' = L.curTok
  /\ lastLocation' = L.lastLocation
  /\ identifierStr' = L.identifierStr
  /\ numVal' = L.numVal
  /\ last_char' = L.last_char
  /\ curLineNum' = L.curLineNum
  /\ curCol' = L.curCol
  /\ curLineBuffer' = L.curLineBuffer
  /\ source' = L.source
  /\ pos' = L.pos
  /\ tokPos' = L.tokPos
  /\ delivered' = L.delivered
  /\ lexerBuffer' = L.lexerBuffer

(* The fields of a Lexer as constructed: the member initializers. *)
Constructed(L) ==
  /\ curTok = L.curTok
  /\ lastLocation = L.lastLocation
  /\ identifierStr = L.identifierStr
  /\ numVal = L.numVal
  /\ last_char = L.last_char
  /\ curLineNum = L.curLineNum
  /\ curCol = L.curCol
  /\ curLineBuffer = L.curLineBuffer
  /\ source = L.source
  /\ pos = L.pos
  /\ tokPos = L.tokPos
  /\ delivered = L.delivered
  /\ lexerBuffer = L.lexerBuffer

(* The state once the Lexer L is constructed over the text; with it a Lexer
   over the text in one chunk.  `chunking' is the chunks the text was cut
   into, when it was. *)
StartWith(L, text, chunks, nd) ==
  /\ Constructed(L)
  /\ whole = NewLexer(ChunksOf(text, Len(text)))
  /\ input = text
  /\ chunking = chunks
  /\ ndebug = nd
  /\ aborted = FALSE
  /\ advanced = FALSE
  /\ result = [op |-> "new", arg |-> 0, returns |-> TRUE, ret |-> 0]
  /\ trace = <<>>

(* A Lexer over the text cut into chunks. *)
Start(chunks, nd) == StartWith(NewLexer(chunks), Flatten(chunks), chunks, nd)

(* A LexerBuffer over a buffer with this content. *)
StartBuffer(content, after, nd) ==
  StartWith(NewLexerBuffer(content, after), content, <<>>, nd)

(* Every text over Alphabet, cut in every way. *)
Init ==
  \E text \in StringsOf(Alphabet, MaxLen), nd \in BOOLEAN :
    \E chunks \in Splits(text) : Start(chunks, nd)

(* Every text over BlankAlphabet, cut in every way. *)
InitBlank ==
  \E text \in StringsOf(BlankAlphabet, MaxLen), nd \in BOOLEAN :
    \E chunks \in Splits(text) : Start(chunks, nd)

(* Every text over NumAlphabet, one character longer, whole or character by
   character. *)
InitNum ==
  \E text \in StringsOf(NumAlphabet, MaxLen + 1), nd \in BOOLEAN :
    \E k \in {1, Len(text)} : Start(ChunksOf(text, k), nd)

(* Every phrase, handed over character by character. *)
InitWords ==
  \E text \in Phrases(MaxWords), nd \in BOOLEAN : Start(ChunksOf(text, 1), nd)

(* The text "def foo(x) {\n return x;\n}". *)
Program ==
  <<100, 101, 102, 32, 102, 111, 111, 40, 120, 41, 32, 123, 10,
    32, 114, 101, 116, 117, 114, 110, 32, 120, 59, 10, 125>>

(* The characters of the buffers: a letter, the newline and NUL. *)
BufferAlphabet == {97, 10, 0}

(* The byte the memory may hold at end: NUL, a newline or a letter. *)
AfterBuffer == {0, 10, 97}

(* A LexerBuffer over the program, or over a short buffer. *)
InitBuffer ==
  \E content \in StringsOf(BufferAlphabet, MaxLen) \cup {Program},
     after \in AfterBuffer, nd \in BOOLEAN :
    StartBuffer(content, after, nd)

(* The text "#\n#\n#\na(": three comment lines, then two tokens. *)
CommentLines == <<35, 10, 35, 10, 35, 10, 97, 40>>

(* The characters of comment lines and of tokens of one character or more. *)
CommentAlphabet == {35, 10, 97, 40}

(* A Lexer over the comment lines or over a short text, handed over line by
   line, character by character or in one chunk. *)
InitComments ==
  \E text \in StringsOf(CommentAlphabet, MaxLen) \cup {CommentLines}, nd \in BOOLEAN :
    \E k \in {1, 2, Len(text)} : Start(ChunksOf(text, k), nd)

(* The characters of identifiers and numbers, and what separates them. *)
MunchAlphabet == {97, 49, 46, 32, 35}

(* The texts "1.2.3" and "a#a\n.". *)
MunchTexts == {<<49, 46, 50, 46, 51>>, <<97, 35, 97, 10, 46>>}

(* A Lexer over a text of identifiers and numbers, handed over character by
   character or in one chunk. *)
InitMunch ==
  \E text \in StringsOf(MunchAlphabet, MaxLen) \cup MunchTexts, nd \in BOOLEAN :
    \E k \in {1, Len(text)} : Start(ChunksOf(text, k), nd)

(* The text "(){}". *)
Brackets == <<40, 41, 123, 125>>

(* A Lexer over a text of punctuation, handed over character by character or
   in one chunk. *)
InitPunct ==
  \E text \in StringsOf(Punctuation, MaxLen - 1) \cup {Brackets}, nd \in BOOLEAN :
    \E k \in {1, Len(text)} : Start(ChunksOf(text, k), nd)

(* What a derived class may return from readNextLine(): a line, the end of
   one, text without a newline, or the empty chunk. *)
ChunkVocabulary == {<<>>, <<97>>, <<10>>, <<97, 10>>, <<40>>}

(* A Lexer over a line source that may return the empty chunk before all of
   its chunks are returned. *)
InitSource ==
  \E chunks \in StringsOf(ChunkVocabulary, MaxLen), nd \in BOOLEAN : Start(chunks, nd)

(* assert(cond): passes, is compiled out, or aborts the process. *)
AssertPasses(cond) == cond \/ ndebug

Returns(op, arg, ret) ==
  result' = [op |-> op, arg |-> arg, returns |-> TRUE, ret |-> ret]

Aborts(op, arg) ==
  /\ aborted' = TRUE
  /\ result' = [op |-> op, arg |-> arg, returns |-> FALSE, ret |-> 0]
  /\ UNCHANGED <<lexerVars, whole, setup, advanced, trace>>

(* The index in the input of the last character the token getTok() has just
   returned covers: the one before the lookahead. *)
TokenEnd(L) == IF L.last_char = EOF THEN L.pos - 1 ELSE L.pos - 2

(* The characters the lexer reads from: the input, or the memory the
   LexerBuffer points into. *)
Memory == IF lexerBuffer.mem = <<>> THEN input ELSE lexerBuffer.mem

(* The history of the tokens getTok() has returned, up to the first tok_eof:
   the token, identifierStr when it is tok_identifier, the location the
   object holds afterwards, the index in the input of the character the location was saved at, and
   the characters of the input from that one to the one before the
   lookahead. *)
Traced(r, M) ==
  IF advanced /\ curTok = tok_eof THEN trace
  ELSE Append(trace,
              [tok |-> r.tok,
               id |-> IF r.tok = tok_identifier THEN r.lex.identifierStr ELSE <<>>,
               loc |-> M.lastLocation,
               start |-> r.lex.tokPos - 1,
               text |-> IF r.tok = tok_eof THEN <<>>
                        ELSE SubSeq(Memory, r.lex.tokPos - 1, TokenEnd(r.lex))])

(* Token getNextToken() *)
GetNextToken ==
  LET r == getTok(Self)
      M == getNextToken(Self)
  IN  /\ ~aborted
      /\ Store(M)
      /\ whole' = getNextToken(whole)
      /\ advanced' = TRUE
      /\ trace' = Traced(r, M)
      /\ Returns("getNextToken", 0, r.tok)
      /\ UNCHANGED <<setup, aborted>>

(* void consume(Token tok) *)
Consume(tok) ==
  LET r == getTok(Self)
      M == getNextToken(Self)
  IN  /\ ~aborted
      /\ IF AssertPasses(consumePrereq(Self, tok))
         THEN /\ Store(M)
              /\ whole' = getNextToken(whole)
              /\ advanced' = TRUE
              /\ trace' = Traced(r, M)
              /\ Returns("consume", tok, 0)
              /\ UNCHANGED <<setup, aborted>>
         ELSE Aborts("consume", tok)

(* llvm::StringRef getId() *)
GetId ==
  /\ ~aborted
  /\ IF AssertPasses(getIdPrereq(Self))
     THEN /\ Returns("getId", 0, identifierStr)
          /\ UNCHANGED <<lexerVars, whole, setup, aborted, advanced, trace>>
     ELSE Aborts("getId", 0)

(* double getValue() *)
GetValue ==
  /\ ~aborted
  /\ IF AssertPasses(getValuePrereq(Self))
     THEN /\ Returns("getValue", 0, numVal)
          /\ UNCHANGED <<lexerVars, whole, setup, aborted, advanced, trace>>
     ELSE Aborts("getValue", 0)

(* Token getCurToken() *)
GetCurToken ==
  /\ ~aborted
  /\ Returns("getCurToken", 0, curTok)
  /\ UNCHANGED <<lexerVars, whole, setup, aborted, advanced, trace>>

(* Location getLastLocation() *)
GetLastLocation ==
  /\ ~aborted
  /\ Returns("getLastLocation", 0, lastLocation)
  /\ UNCHANGED <<lexerVars, whole, setup, aborted, advanced, trace>>

(* int getLine() const *)
GetLine ==
  /\ ~aborted
  /\ Returns("getLine", 0, curLineNum)
  /\ UNCHANGED <<lexerVars, whole, setup, aborted, advanced, trace>>

(* int getCol() const *)
GetCol ==
  /\ ~aborted
  /\ Returns("getCol", 0, curCol)
  /\ UNCHANGED <<lexerVars, whole, setup, aborted, advanced, trace>>

(* The tokens a caller passes to consume(). *)
Expected == {tok_eof, tok_identifier, tok_number, tok_parenthese_open}

Next ==
  \/ GetNextToken
  \/ \E tok \in Expected : Consume(tok)
  \/ GetId
  \/ GetValue
  \/ GetCurToken
  \/ GetLastLocation
  \/ GetLine
  \/ GetCol

Spec == Init /\ [][Next]_vars

SpecBlank == InitBlank /\ [][Next]_vars

SpecNum == InitNum /\ [][Next]_vars

SpecWords == InitWords /\ [][Next]_vars

SpecBuffer == InitBuffer /\ [][Next]_vars

SpecComments == InitComments /\ [][Next]_vars

SpecMunch == InitMunch /\ [][Next]_vars

SpecPunct == InitPunct /\ [][Next]_vars

SpecSource == InitSource /\ [][Next]_vars

(***************************************************************************)
(* What the properties say of the input text, computed from the text       *)
(* alone.                                                                  *)
(***************************************************************************)
IdChars == (65..90) \cup (97..122) \cup (48..57) \cup {95}
NumChars == (48..57) \cup {46}

(* The longest run of characters of S in t that starts at index i. *)
RECURSIVE RunIn(_, _, _)
RunIn(S, t, i) ==
  IF i \in 1..Len(t) /\ t[i] \in S THEN <<t[i]>> \o RunIn(S, t, i + 1) ELSE <<>>

(* The number of newline characters of t before index i. *)
NewlinesBefore(t, i) == Cardinality({k \in 1..(i - 1) : k <= Len(t) /\ t[k] = 10})

(* The index in the input of the first character of the current token. *)
TokenStart == tokPos - 1

(* A token has been requested and the last one returned is not tok_eof. *)
OnToken == advanced /\ curTok # tok_eof

(* C1: the value of a number token, and what getValue() returns for it, is
   the decimal parse of the token's text in the input, the maximal run of
   [0-9.] at the token's start ("3.14" gives 3.14). *)
NumberValueIsParseOfText ==
  /\ (advanced /\ curTok = tok_number) =>
       numVal = strtod(RunIn(NumChars, input, TokenStart))
  /\ (advanced /\ curTok = tok_number /\ result.op = "getValue" /\ result.returns) =>
       result.ret = strtod(RunIn(NumChars, input, TokenStart))

(* C2, as claimed: a token that starts at the first character of line 1
   reports column 0. *)
FirstTokenColumnZero ==
  (OnToken /\ TokenStart = 1) => lastLocation.col = 0

(* C2, amended: a token that starts at the first character of line 1 reports
   column 1, in lastLocation and in what getLastLocation() returns. *)
FirstTokenColumnOne ==
  (OnToken /\ TokenStart = 1) =>
    /\ lastLocation.col = 1
    /\ result.op = "getLastLocation" => result.ret.col = 1

(* "def\nfoo": after the first token, def, getLastLocation() gives column 1. *)
DefAtColumnOne ==
  /\ input = w_def \o <<10>> \o w_foo
  /\ advanced /\ curTok = tok_def /\ TokenStart = 1
  /\ result.op = "getLastLocation" /\ result.ret.col = 1

(* C3: the line of a token other than tok_eof is 1 plus the number of newline
   characters before the token's first character in the input. *)
TokenLine ==
  OnToken =>
    /\ lastLocation.line = 1 + NewlinesBefore(input, TokenStart)
    /\ result.op = "getLastLocation" =>
         result.ret.line = 1 + NewlinesBefore(input, TokenStart)

(* "#\na": the token after a comment line is on line 2. *)
TokenAfterCommentLine ==
  /\ input = <<35, 10, 97>>
  /\ OnToken /\ curTok = tok_identifier
  /\ result.op = "getLastLocation" /\ result.ret.line = 2

(* C4: once getNextToken() has returned tok_eof, every later call returns
   tok_eof and leaves the line, the column, the lookahead and the line buffer
   as they are. *)
EofIsSticky ==
  [][(advanced /\ curTok = tok_eof) =>
       /\ curTok' = tok_eof
       /\ curLineNum' = curLineNum
       /\ curCol' = curCol
       /\ last_char' = last_char
       /\ curLineBuffer' = curLineBuffer]_vars

(* "#a": the first getNextToken() returns tok_eof with the location of the
   comment, column 1; a later one has been made, it saved column 2. *)
AdvancedPastEof ==
  /\ input = <<35, 97>>
  /\ advanced /\ curTok = tok_eof
  /\ result.op = "getNextToken" /\ result.ret = tok_eof
  /\ lastLocation.col = 2

(* A step that is a call of consume() with a token other than the current. *)
ConsumeMismatch == result'.op = "consume" /\ result'.arg # curTok

(* C5, as claimed: consume() with a token other than the current one fails
   and leaves the lexer as it is. *)
ConsumeMismatchFailsUnchanged ==
  [][ConsumeMismatch => (~result'.returns /\ UNCHANGED lexerVars)]_vars

(* C5, amended: consume() with a token other than the current one aborts the
   process, the lexer left as it is, when assert is compiled in; when assert
   is compiled out it returns and has done what getNextToken() does. *)
ConsumeMismatchAbortsOrAdvances ==
  [][ConsumeMismatch =>
       IF ndebug
       THEN result'.returns /\ ~aborted' /\ Self' = getNextToken(Self)
       ELSE ~result'.returns /\ aborted' /\ UNCHANGED lexerVars]_vars

(* "a": consume(tok_number) as the first call, assert compiled out: it has
   returned and the identifier is the current token. *)
MismatchedConsumeAdvanced ==
  /\ input = <<97>> /\ ndebug
  /\ result.op = "consume" /\ result.arg = tok_number /\ result.returns
  /\ curTok = tok_identifier /\ pos = 2

(* A step that is a call of getId() or getValue(). *)
AccessorCall == result'.op \in {"getId", "getValue"}

(* C6, as claimed: getId() fails unless the current token is tok_identifier,
   getValue() fails unless it is tok_number, and neither changes the lexer. *)
AccessorsRejectWrongKind ==
  [][/\ (result'.op = "getId" /\ curTok # tok_identifier) => ~result'.returns
     /\ (result'.op = "getValue" /\ curTok # tok_number) => ~result'.returns
     /\ AccessorCall => UNCHANGED lexerVars]_vars

(* C6, amended: with assert compiled in, getId() aborts the process exactly
   when the current token is not tok_identifier (a keyword, a number,
   punctuation, tok_eof) and getValue() exactly when it is not tok_number;
   with assert compiled out both return the stored identifierStr and numVal
   whatever the current token; in no case is the lexer changed. *)
AccessorsAssertKind ==
  [][/\ result'.op = "getId" =>
          /\ result'.returns <=> (curTok = tok_identifier \/ ndebug)
          /\ result'.returns => result'.ret = identifierStr
     /\ result'.op = "getValue" =>
          /\ result'.returns <=> (curTok = tok_number \/ ndebug)
          /\ result'.returns => result'.ret = numVal
     /\ AccessorCall =>
          /\ UNCHANGED lexerVars
          /\ aborted' <=> ~result'.returns]_vars

(* getId() on the keyword def, assert compiled in: the process has aborted. *)
GetIdAbortedOnKeyword ==
  /\ ~ndebug /\ aborted
  /\ result.op = "getId" /\ ~result.returns
  /\ advanced /\ curTok = tok_def

(* The text of the current token when it starts with a letter: the maximal
   run of [A-Za-z0-9_] at its start. *)
Word == RunIn(IdChars, input, TokenStart)

OnWord == OnToken /\ isalpha(input[TokenStart])

(* C7: a word that is none of return, var, def is returned as tok_identifier,
   with identifierStr, and what getId() returns, the word itself, whatever
   was scanned before it. *)
IdentifierIsTheWord ==
  (OnWord /\ Word \notin {w_return, w_var, w_def}) =>
    /\ curTok = tok_identifier
    /\ identifierStr = Word
    /\ (result.op = "getId" /\ result.returns) => result.ret = Word

(* "returns foo": getId() gives foo for the second word. *)
IdentifierAfterLongerWord ==
  /\ input = w_returns \o <<32>> \o w_foo
  /\ OnWord /\ TokenStart = 9
  /\ result.op = "getId" /\ result.returns /\ result.ret = w_foo

(* C8: return, var and def, and no other word, are returned as tok_return,
   tok_var and tok_def; every other word is returned as tok_identifier. *)
KeywordsAreExact ==
  OnWord =>
    /\ curTok = tok_return <=> Word = w_return
    /\ curTok = tok_var <=> Word = w_var
    /\ curTok = tok_def <=> Word = w_def
    /\ curTok = tok_identifier <=> Word \notin {w_return, w_var, w_def}

(* "returns return": the first word was an identifier, the second is the
   keyword. *)
KeywordAfterItsExtension ==
  /\ input = w_returns \o <<32>> \o w_return
  /\ OnWord /\ TokenStart = 9 /\ curTok = tok_return
  /\ identifierStr = w_return

(* A text of whitespace and comments only: outside a comment, a space, a tab,
   a newline, a carriage return or '#'; a comment runs to a newline or a
   carriage return. *)
RECURSIVE OnlyBlank(_, _)
OnlyBlank(t, inComment) ==
  IF t = <<>> THEN TRUE
  ELSE IF inComment THEN OnlyBlank(Tail(t), Head(t) \notin {10, 13})
  ELSE /\ Head(t) \in {32, 9, 10, 13, 35}
       /\ OnlyBlank(Tail(t), Head(t) = 35)

(* C9: on a text of whitespace and comments only, every getNextToken()
   returns tok_eof. *)
BlankInputIsEof ==
  (advanced /\ OnlyBlank(input, FALSE)) =>
    /\ curTok = tok_eof
    /\ result.op = "getNextToken" => result.ret = tok_eof

(* tab, '#', 'a': a comment that no newline ends. *)
UnterminatedCommentIsEof ==
  /\ input = <<9, 35, 97>>
  /\ advanced /\ curTok = tok_eof
  /\ result.op = "getNextToken" /\ result.ret = tok_eof

(* C10: whatever the chunks, the lexer returns the tokens, identifier texts,
   values and locations it returns when the text comes as one chunk, and is
   at the same line and column with the same lookahead. *)
ChunksAreInvisible ==
  /\ curTok = whole.curTok
  /\ identifierStr = whole.identifierStr
  /\ numVal = whole.numVal
  /\ lastLocation = whole.lastLocation
  /\ curLineNum = whole.curLineNum
  /\ curCol = whole.curCol
  /\ last_char = whole.last_char
  /\ result.op = "getNextToken" => result.ret = whole.curTok

(* "aa(" delivered as "a", "a(": the identifier aa, cut by the chunks, is one
   token. *)
TokenAcrossChunks ==
  /\ chunking = <<<<97>>, <<97, 40>>>>
  /\ advanced /\ curTok = tok_identifier /\ identifierStr = <<97, 97>>
  /\ lastLocation = [line |-> 1, col |-> 1]

(* The tokens returned so far, each with the text of its identifier. *)
Returned == [i \in 1..Len(trace) |-> [tok |-> trace[i].tok, id |-> trace[i].id]]

ReturnedEof == advanced /\ curTok = tok_eof

IsPrefix(s, t) == Len(s) <= Len(t) /\ s = SubSeq(t, 1, Len(s))

Tok(t) == [tok |-> t, id |-> <<>>]
Id(name) == [tok |-> tok_identifier, id |-> name]

ProgramTokens ==
  <<Tok(tok_def), Id(w_foo), Tok(tok_parenthese_open), Id(<<120>>),
    Tok(tok_parenthese_close), Tok(tok_bracket_open), Tok(tok_return),
    Id(<<120>>), Tok(tok_semicolon), Tok(tok_bracket_close), Tok(tok_eof)>>

(* C11: a LexerBuffer over "def foo(x) {\n return x;\n}" returns, in this
   order, def, the identifier foo, "(", the identifier x, ")", "{", return,
   the identifier x, ";", "}" and then tok_eof: the tokens returned so far are
   always the first of these, and all of them once tok_eof is returned. *)
ProgramIsLexed ==
  input = Program =>
    /\ IsPrefix(Returned, ProgramTokens)
    /\ ReturnedEof => Returned = ProgramTokens


(* The number of characters of the input that are behind the lookahead: in a
   token returned, or skipped as whitespace or comment. *)
Scanned == IF advanced THEN TokenEnd(Self) ELSE 0

(* A step of getNextToken(), or of consume() when it gets to getNextToken(). *)
Advance ==
  /\ advanced'
  /\ \/ result'.op = "getNextToken"
     \/ result'.op = "consume" /\ result'.returns

(* C12: every getNextToken() returns a token; one that returns a token other
   than tok_eof moves the lookahead forward in the input by one character at
   least, through any number of comment lines; and so tok_eof is returned
   after finitely many calls: no more calls than the input has characters
   return another token, and the call after them returns tok_eof. *)
AdvanceConsumes ==
  /\ [][Advance => /\ trace' # <<>>
                   /\ curTok' # tok_eof => Scanned' > Scanned /\ Scanned' <= Len(input)]_vars
  /\ [](\A i \in 1..Len(trace) : trace[i].tok # tok_eof => i <= Len(input))
  /\ [](Len(trace) = Len(input) + 1 => ReturnedEof)

(* Three comment lines were skipped in one getNextToken(), and tok_eof was
   returned after the two tokens behind them. *)
CommentLinesLexedToEof ==
  /\ input = CommentLines
  /\ ReturnedEof
  /\ Len(trace) = 3
  /\ trace[1].text = <<97>>
  /\ delivered # <<>>

(* The characters getNextChar() has returned so far: the newline curLineBuffer
   starts with, then the input. *)
Consumed == SubSeq(<<10>> \o input, 1, pos)

(* The index in s of its last newline, 0 when it has none. *)
LastNewline(s) ==
  LET at == {k \in 1..Len(s) : s[k] = 10}
  IN  IF at = {} THEN 0 ELSE CHOOSE k \in at : \A j \in at : j <= k

(* C13: getLine() never decreases; the column is the number of characters
   consumed since the last newline consumed, so it grows by one with each
   character and restarts at zero at a newline and nowhere else; and the line
   of getLastLocation() is never more than getLine(). *)
CountersFollowNewlines ==
  /\ [][curLineNum' >= curLineNum /\ pos' >= pos]_vars
  /\ [](curLineNum = Cardinality({k \in 1..pos : Consumed[k] = 10}))
  /\ [](curCol = pos - LastNewline(Consumed))
  /\ [](lastLocation.line <= curLineNum)

(* A newline inside the text was consumed, and one character after it. *)
ColumnRestartedInText ==
  /\ input = <<97, 10, 97>>
  /\ pos = 4
  /\ curLineNum = 2
  /\ curCol = 1
  /\ lastLocation.line = 2

(* The index in t, from i on, of the first character that is neither
   whitespace nor in a comment; Len(t) + 1 when there is none. *)
RECURSIVE SkipBlank(_, _, _)
SkipBlank(t, i, inComment) ==
  IF i > Len(t) THEN i
  ELSE IF inComment THEN SkipBlank(t, i + 1, t[i] \notin {10, 13})
  ELSE IF isspace(t[i]) THEN SkipBlank(t, i + 1, FALSE)
  ELSE IF t[i] = 35 THEN SkipBlank(t, i + 1, TRUE)
  ELSE i

(* The characters of the input the current token covers. *)
TokenText == SubSeq(input, TokenStart, TokenEnd(Self))

(* C14: a token that starts at a letter covers the longest run of letters,
   digits and '_' from there, and one that starts at a digit or '.' is a
   number and covers the longest run of digits and '.'; the character after
   the run is the lookahead, and the next token starts at it, or at the first
   character behind the whitespace and comments that start at it. *)
MaximalMunch ==
  /\ [](OnToken =>
         /\ isalpha(input[TokenStart]) =>
              /\ curTok \in {tok_identifier, tok_return, tok_var, tok_def}
              /\ TokenText = RunIn(IdChars, input, TokenStart)
              /\ identifierStr = TokenText
         /\ input[TokenStart] \in NumChars =>
              /\ curTok = tok_number
              /\ TokenText = RunIn(NumChars, input, TokenStart)
         /\ last_char = IF Scanned < Len(input) THEN input[Scanned + 1] ELSE EOF)
  /\ [][Advance =>
         LET n == SkipBlank(input, Scanned + 1, FALSE)
         IN  IF n > Len(input) THEN curTok' = tok_eof
             ELSE curTok' # tok_eof /\ TokenStart' = n]_vars

(* "1a": the number 1, then the identifier a. *)
NumberThenIdentifier ==
  /\ input = <<49, 97>>
  /\ Len(trace) = 2
  /\ trace[1].tok = tok_number /\ trace[1].text = <<49>>
  /\ curTok = tok_identifier /\ TokenStart = 2 /\ identifierStr = <<97>>

(* The tokens returned so far. *)
ReturnedToks == [i \in 1..Len(trace) |-> trace[i].tok]

(* C15: ';', '(', ')', '{', '}', '[' and ']' are each returned as a token of
   their own, the character itself, that covers this one character; a text of
   them is returned character by character, in order, and then tok_eof. *)
PunctuationIsOneToken ==
  /\ [](OnToken /\ input[TokenStart] \in Punctuation =>
         /\ curTok = input[TokenStart]
         /\ TokenText = <<curTok>>
         /\ result.op = "getNextToken" => result.ret = curTok)
  /\ [][Advance /\ Scanned < Len(input) /\ input[Scanned + 1] \in Punctuation =>
         /\ curTok' = input[Scanned + 1]
         /\ Scanned' = Scanned + 1]_vars
  /\ []((\A i \in 1..Len(input) : input[i] \in Punctuation) =>
         /\ IsPrefix(ReturnedToks, input \o <<tok_eof>>)
         /\ ReturnedEof => ReturnedToks = input \o <<tok_eof>>)

(* "(){}" was returned as four tokens, and tok_eof. *)
BracketsLexedToEof ==
  /\ input = Brackets
  /\ ReturnedEof
  /\ ReturnedToks = <<40, 41, 123, 125, tok_eof>>

(* The tokens returned so far other than tok_eof. *)
Tokens == {i \in 1..Len(trace) : trace[i].tok # tok_eof}

(* C16: the location of a token is taken at its first character: the token
   is, or begins with, the character the location was saved at, and the
   columns of two tokens on one line differ by the number of characters from
   the first character of the one to the first character of the other; and
   between one getNextToken() and the next getLastLocation() does not
   change. *)
LocationIsTokenStart ==
  /\ [](\A i \in Tokens :
          /\ trace[i].start \in 1..Len(input)
          /\ trace[i].tok = tok_identifier => trace[i].id[1] = input[trace[i].start]
          /\ trace[i].tok >= 0 => trace[i].tok = input[trace[i].start])
  /\ [](\A i, j \in Tokens :
          trace[i].loc.line = trace[j].loc.line =>
            trace[j].loc.col - trace[i].loc.col = trace[j].start - trace[i].start)
  /\ [](OnToken => lastLocation = trace[Len(trace)].loc)
  /\ [][~Advance => lastLocation' = lastLocation]_vars

(* "aa(": an identifier of two characters and "(" on one line, two columns
   apart, and getLastLocation() called after the second. *)
TwoTokensOnOneLine ==
  /\ input = <<97, 97, 40>>
  /\ Len(trace) = 2
  /\ trace[1].loc = [line |-> 1, col |-> 1]
  /\ trace[2].loc = [line |-> 1, col |-> 3]
  /\ result.op = "getLastLocation" /\ result.ret = trace[2].loc

(* The chunks before the first empty one. *)
RECURSIVE UntilEmpty(_)
UntilEmpty(cs) ==
  IF cs = <<>> \/ Head(cs) = <<>> THEN <<>> ELSE <<Head(cs)>> \o UntilEmpty(Tail(cs))

(* readNextLine() has returned the empty chunk. *)
SourceEnded == delivered # <<>> /\ delivered[Len(delivered)] = <<>>

(* C17: every character of the chunks before the first empty one is read,
   the last one too; readNextLine() is called when a character has just
   emptied curLineBuffer and at no other time, so what it has returned is
   what was read and what curLineBuffer holds; and once it has returned the
   empty chunk it is not called again and no character is read any more,
   whatever chunks it has left. *)
EmptyChunkEndsInput ==
  /\ [](ReturnedEof => SubSeq(input, 1, pos - 1) = Flatten(UntilEmpty(chunking)))
  /\ [](pos >= 1 => /\ SubSeq(input, 1, pos - 1) \o curLineBuffer = Flatten(delivered)
                    /\ curLineBuffer = <<>> => SourceEnded)
  /\ [](pos = 0 => delivered = <<>>)
  /\ [](delivered \o source \in {chunking, chunking \o <<<<>>>>})
  /\ [][SourceEnded => delivered' = delivered /\ source' = source /\ pos' = pos]_vars
  /\ [][delivered' # delivered => pos' > pos]_vars

(* "a", the empty chunk, "(": the text ended at the empty chunk, and "(" is
   still with the source. *)
TextLeftInSource ==
  /\ chunking = <<<<97>>, <<>>, <<40>>>>
  /\ ReturnedEof
  /\ ReturnedToks = <<tok_identifier, tok_eof>>
  /\ delivered = <<<<97>>, <<>>>>
  /\ source = <<<<40>>>>

(* C18: getCurToken() changes nothing in the object and returns the token
   the last getNextToken() returned (the one consume() got, when consume()
   was the last to advance); no operation but these two changes it; and
   before the first of them it is tok_eof, with getLastLocation() at line 0,
   column 0, whatever the input. *)
CurTokenIsLastReturned ==
  /\ [][result'.op = "getCurToken" => UNCHANGED lexerVars /\ result'.ret = curTok]_vars
  /\ [][result'.op = "getNextToken" => curTok' = result'.ret]_vars
  /\ [][~Advance => curTok' = curTok]_vars
  /\ [](advanced => curTok = trace[Len(trace)].tok)
  /\ [](~advanced => curTok = tok_eof /\ lastLocation = [line |-> 0, col |-> 0])
  /\ [](result.op = "getCurToken" => result.ret = curTok)

(* getCurToken() on the text "a(", before any token was asked for. *)
CurTokenBeforeFirstToken ==
  /\ input = <<97, 40>>
  /\ ~advanced
  /\ result.op = "getCurToken" /\ result.ret = tok_eof
  /\ pos = 0

(* The text without its whitespace and its comments, which run from '#' to
   the newline or carriage return that ends them, or to the end. *)
RECURSIVE Strip(_, _)
Strip(t, inComment) ==
  IF t = <<>> THEN <<>>
  ELSE IF inComment THEN Strip(Tail(t), Head(t) \notin {10, 13})
  ELSE IF isspace(Head(t)) THEN Strip(Tail(t), FALSE)
  ELSE IF Head(t) = 35 THEN Strip(Tail(t), TRUE)
  ELSE <<Head(t)>> \o Strip(Tail(t), FALSE)

(* The characters the tokens returned so far cover, in order. *)
TokenTexts == Flatten([i \in 1..Len(trace) |-> trace[i].text])

(* C19: the characters the tokens cover, one token after the other, are the
   first characters of the input without its whitespace and comments, and
   all of them once tok_eof is returned: none is left out, none is in two
   tokens. *)
TokensCoverInput ==
  /\ IsPrefix(TokenTexts, Strip(input, FALSE))
  /\ ReturnedEof => TokenTexts = Strip(input, FALSE)
  /\ \A i \in Tokens : trace[i].text # <<>>

(* "#\n(": the "(" behind the comment line, and nothing else. *)
TokensAroundComment ==
  /\ input = <<35, 10, 40>>
  /\ ReturnedEof
  /\ TokenTexts = <<40>>
  /\ Len(trace) = 2

(* What n calls of LexerBuffer::readNextLine() return, one after the other. *)
RECURSIVE ReadLines(_, _)
ReadLines(L, n) ==
  IF n = 0 THEN <<>>
  ELSE LET M == LexerBuffer_readNextLine(L)
       IN  <<M.curLineBuffer>> \o ReadLines(M, n - 1)

(* The chunks a LexerBuffer constructed as this one returns, to the end of
   the buffer and two calls further. *)
BufferLines ==
  ReadLines(NewLexerBuffer(input, lexerBuffer.mem[lexerBuffer.end]), Len(input) + 2)

(* C20: LexerBuffer::readNextLine() returns the lines of the buffer, each
   with the newline that ends it: the chunks before the first empty one make
   up the buffer, a newline is the last character of its chunk, so an empty
   line is the chunk "\n", every chunk after an empty one is empty, and the
   chunks the lexer has got are the first of these. *)
BufferLinesAreContent ==
  /\ Flatten(UntilEmpty(BufferLines)) = input
  /\ \A i \in 1..Len(BufferLines) :
       \A k \in 1..Len(BufferLines[i]) :
         BufferLines[i][k] = 10 => k = Len(BufferLines[i])
  /\ \A i, j \in 1..Len(BufferLines) :
       BufferLines[i] = <<>> /\ i < j => BufferLines[j] = <<>>
  /\ IsPrefix(delivered, BufferLines)

====
